---- MODULE Spec2Model ----
(***************************************************************************)
(* A model of the training-objective and decision layer of the DIET joint  *)
(* classifier: src/src/layers/loss.py (SingleLabelDotProductLoss) and      *)
(* src/src/models/classifier.py (DIETClassifier).                           *)
(*                                                                         *)
(* Real numbers are exact rationals <<n, d>> with d > 0 in lowest terms.   *)
(* An optional value (Python None or a value v) is <<>> or <<v>>.          *)
(***************************************************************************)
EXTENDS Integers, Sequences, FiniteSets, TLC

VARIABLES
    \* SingleLabelDotProductLoss.sim: the operands and the result
    a, b, sim_result,
    \* SingleLabelDotProductLoss._loss_margin: the object's fields, the
    \* arguments and the result
    mu_pos, mu_neg, use_max_sim_neg, sim_pos, sim_neg, margin_loss,
    \* SingleLabelDotProductLoss._loss_cross_entropy, line 141
    \* (loss *= self._scale_loss(-loss)): the loss before the line, the
    \* factor _scale_loss returns and the loss after the line
    raw_loss, scale, scaled_loss,
    \* DIETClassifier: the intent vocabulary size and the learned label
    \* embeddings (label id l is row l + 1)
    num_intents, label_table,
    \* the gold intent labels of a call (None when omitted) and the rows
    \* _neg_sample returned for them
    intent_labels, neg_label,
    \* _neg_sample: how the last call ended and how many calls were made
    neg_status, neg_calls,
    \* DIETClassifier configuration: use_dot_product, the module's training
    \* flag, config.use_return_dict, and the loss_type the docstring of
    \* SingleLabelDotProductLoss.__init__ speaks of
    use_dot_product, training, use_return_dict, loss_type,
    \* DIETClassifier.forward: the arguments of the call
    entities_labels, return_dict, output_hidden_states, output_attentions,
    \* what the encoder and the sequence scorer gave: the first token's
    \* hidden vector per example and the log-likelihood of the gold tags
    pooled_output, crf_ll,
    \* the locals of forward and what it returned or raised
    entities_loss, intent_loss, loss, out

simVars    == <<a, b, sim_result>>
marginVars == <<mu_pos, mu_neg, use_max_sim_neg, sim_pos, sim_neg, margin_loss>>
scaleVars  == <<raw_loss, scale, scaled_loss>>
modelVars  == <<num_intents, label_table>>
negVars    == <<intent_labels, neg_label, neg_status, neg_calls>>
configVars == <<use_dot_product, training, use_return_dict, loss_type>>
callVars   == <<entities_labels, return_dict, output_hidden_states, output_attentions,
                pooled_output, crf_ll>>
localVars  == <<entities_loss, intent_loss, loss, out>>
fwdVars    == <<configVars, callVars, localVars>>
vars       == <<simVars, marginVars, scaleVars, modelVars, negVars, fwdVars>>

None    == <<>>
Some(v) == <<v>>
Val(o)  == o[1]

----------------------------------------------------------------------------
(* Bounds *)

\* largest batch handed to _loss_margin
MaxBatch == 2
\* embedding vectors are k * d for a base direction d and |k| <= MaxScale
MaxScale == 2
\* largest intent vocabulary
MaxIntents == 3
\* largest number of successive _neg_sample calls
MaxCalls == 2
\* largest batch handed to DIETClassifier.forward
MaxForwardBatch == 1

----------------------------------------------------------------------------
(* Exact rational arithmetic *)

Abs(x) == IF x < 0 THEN -x ELSE x

RECURSIVE GCD(_, _)
GCD(x, y) == IF y = 0 THEN x ELSE GCD(y, x % y)

Rat(n, d) ==
    LET s == IF d < 0 THEN -1 ELSE 1
        g == GCD(Abs(n), Abs(d))
    IN  <<(s * n) \div g, (s * d) \div g>>

RZero == <<0, 1>>
ROne  == <<1, 1>>
\* sums and comparisons go through the least common denominator, products
\* are reduced crosswise first, so the intermediate integers stay small
Cmp(x, y) ==
    LET g == GCD(x[2], y[2])
    IN  x[1] * (y[2] \div g) - y[1] * (x[2] \div g)
RAdd(x, y) ==
    LET g == GCD(x[2], y[2])
    IN  Rat(x[1] * (y[2] \div g) + y[1] * (x[2] \div g), (x[2] \div g) * y[2])
RNeg(x) == <<-x[1], x[2]>>
RSub(x, y) == RAdd(x, RNeg(y))
RMul(x, y) ==
    LET u == Rat(x[1], y[2])
        v == Rat(y[1], x[2])
    IN  Rat(u[1] * v[1], u[2] * v[2])
RDiv(x, y) == RMul(x, Rat(y[2], y[1]))
RDivInt(x, k) == RMul(x, Rat(1, k))
RLeq(x, y) == Cmp(x, y) <= 0
RLess(x, y) == Cmp(x, y) < 0
RMaximum(x, y) == IF RLeq(x, y) THEN y ELSE x

RECURSIVE RSum(_)
RSum(s) == IF s = <<>> THEN RZero ELSE RAdd(Head(s), RSum(Tail(s)))

RECURSIVE RMaxOf(_)
RMaxOf(s) == IF Len(s) = 1 THEN s[1] ELSE RMaximum(s[1], RMaxOf(Tail(s)))

RMean(s) == RDivInt(RSum(s), Len(s))

----------------------------------------------------------------------------
(* Embedding vectors: integer vectors of dimension 2 with an integer norm *)

Directions == {<<1, 0>>, <<0, 1>>, <<3, 4>>}
Vectors == {<<k * d[1], k * d[2]>> : k \in (-MaxScale)..MaxScale, d \in Directions}

\* the square root of a perfect square
ISqrt(n) == CHOOSE r \in 0..n : r * r = n
L2Norm(v) == ISqrt(v[1] * v[1] + v[2] * v[2])

\* torch.nn.functional.normalize(v, p=2, dim=-1): v / max(||v||_2, eps) with
\* eps = 1e-12.  The norms here are integers, so the norm is below eps
\* exactly when it is 0, and then every component is 0 and 0 / eps = 0.
\* The components are fractions over one denominator, not reduced.
normalize(v) ==
    LET norm == L2Norm(v)
    IN  IF norm >= 1
        THEN [i \in 1..Len(v) |-> <<v[i], norm>>]
        ELSE [i \in 1..Len(v) |-> <<0, 1>>]

\* the sum over the last axis of the elementwise product of two rows of
\* fractions, each row over one denominator
SumOfProducts(nx, ny) ==
    Rat(nx[1][1] * ny[1][1] + nx[2][1] * ny[2][1], nx[1][2] * ny[1][2])

\* sim(a, b): normalize both, multiply elementwise, sum over the last axis
sim_unnormalized_a(x, y) ==
    SumOfProducts([i \in 1..Len(x) |-> <<x[i], 1>>], normalize(y))
sim(x, y) == SumOfProducts(normalize(x), normalize(y))

----------------------------------------------------------------------------
(* SingleLabelDotProductLoss._loss_margin *)

\* torch.maximum(Tensor([0]), x): the hinge
hinge(x) == RMaximum(RZero, x)

\* line 87: the positive term, one per example
loss_pos(mp, sp) == [i \in 1..Len(sp) |-> hinge(RSub(mp, sp[i]))]

\* lines 91-92: hinge of the maximum over the whole sim_neg tensor
neg_term_max(mn, sn) == hinge(RAdd(mn, RMaxOf(sn)))

\* lines 95-96: maximum over the whole tensor of the elementwise hinges
neg_term_all_sum(mn, sn) == RSum([i \in 1..Len(sn) |-> hinge(RAdd(mn, sn[i]))])
neg_term_all(mn, sn) == RMaxOf([i \in 1..Len(sn) |-> hinge(RAdd(mn, sn[i]))])

_loss_margin_per_example(mp, mn, use_max, sp, sn) ==
    RMean([i \in 1..Len(sp) |->
        RAdd(loss_pos(mp, sp)[i],
             IF use_max THEN hinge(RAdd(mn, sn[i]))
                        ELSE neg_term_all(mn, sn))])
_loss_margin_no_hinge(mp, mn, use_max, sp, sn) ==
    RMean([i \in 1..Len(sp) |->
        RAdd(RSub(mp, sp[i]),
             IF use_max THEN neg_term_max(mn, sn)
                        ELSE neg_term_all(mn, sn))])
_loss_margin_sum_neg(mp, mn, use_max, sp, sn) ==
    RMean([i \in 1..Len(sp) |->
        RAdd(loss_pos(mp, sp)[i],
             IF use_max THEN neg_term_max(mn, sn)
                        ELSE neg_term_all_sum(mn, sn))])
_loss_margin(mp, mn, use_max, sp, sn) ==
    RMean([i \in 1..Len(sp) |->
        RAdd(loss_pos(mp, sp)[i],
             IF use_max THEN neg_term_max(mn, sn)
                        ELSE neg_term_all(mn, sn))])

----------------------------------------------------------------------------
(* The variables a specification does not use keep these values *)

SimUnused ==
    a = <<>> /\ b = <<>> /\ sim_result = None
MarginUnused ==
    /\ mu_pos = RZero /\ mu_neg = RZero /\ use_max_sim_neg = FALSE
    /\ sim_pos = <<>> /\ sim_neg = <<>> /\ margin_loss = None
ScaleUnused ==
    raw_loss = <<>> /\ scale = None /\ scaled_loss = None
ModelUnused ==
    num_intents = 0 /\ label_table = <<>>
NegUnused ==
    /\ intent_labels = None /\ neg_label = None
    /\ neg_status = "idle" /\ neg_calls = 0
FwdUnused ==
    /\ use_dot_product = FALSE /\ training = FALSE /\ use_return_dict = FALSE
    /\ loss_type = "margin"
    /\ entities_labels = None /\ return_dict = None
    /\ output_hidden_states = FALSE /\ output_attentions = FALSE
    /\ pooled_output = <<>> /\ crf_ll = RZero
    /\ entities_loss = None /\ intent_loss = None /\ loss = None
    /\ out = [form |-> "idle"]

----------------------------------------------------------------------------
(* Specification SpecSim: sim applied to one pair of vectors *)

InitSim ==
    /\ a \in Vectors
    /\ b \in Vectors
    /\ sim_result = None
    /\ MarginUnused /\ ScaleUnused /\ ModelUnused /\ NegUnused /\ FwdUnused

CallSim ==
    /\ sim_result = None
    /\ sim_result' = Some(sim(a, b))
    /\ UNCHANGED <<a, b, marginVars, scaleVars, modelVars, negVars, fwdVars>>

NextSim == CallSim
SpecSim == InitSim /\ [][NextSim]_vars

----------------------------------------------------------------------------
(* Specification SpecMargin: _loss_margin applied to one batch *)

\* similarity scores the batches are drawn from (cosines, in [-1, 1])
SimValues == {Rat(-1, 2), Rat(1, 10), Rat(3, 10), Rat(4, 5), Rat(9, 10)}
\* the margins of the object: the defaults of __init__ and one other setting
MarginSettings == {<<Rat(4, 5), Rat(-1, 5)>>, <<Rat(1, 2), Rat(-3, 10)>>}

InitMargin ==
    /\ \E m \in MarginSettings : mu_pos = m[1] /\ mu_neg = m[2]
    /\ use_max_sim_neg \in BOOLEAN
    /\ \E n \in 1..MaxBatch :
          /\ sim_pos \in [1..n -> SimValues]
          /\ sim_neg \in [1..n -> SimValues]
    /\ margin_loss = None
    /\ SimUnused /\ ScaleUnused /\ ModelUnused /\ NegUnused /\ FwdUnused

CallLossMargin ==
    /\ margin_loss = None
    /\ margin_loss' = Some(_loss_margin(mu_pos, mu_neg, use_max_sim_neg, sim_pos, sim_neg))
    /\ UNCHANGED <<mu_pos, mu_neg, use_max_sim_neg, sim_pos, sim_neg,
                   simVars, scaleVars, modelVars, negVars, fwdVars>>

NextMargin == CallLossMargin
SpecMargin == InitMargin /\ [][NextMargin]_vars

----------------------------------------------------------------------------
(* SingleLabelDotProductLoss._scale_loss *)

\* Logarithms are known to three decimals: LnMilli[k] is 1000 * ln(k / 10)
\* rounded.  torch.exp is the table read backwards: the largest k / 10 whose
\* logarithm does not exceed the argument.
FromMilli(x) == Rat(x, 1000)
LnMilli == <<-2303, -1609, -1204, -916, -693, -511, -357, -223, -105, 0>>
exp(x) ==
    LET ks == {k \in 1..Len(LnMilli) : RLeq(FromMilli(LnMilli[k]), x)}
    IN  IF ks = {} THEN RZero
        ELSE Rat(CHOOSE k \in ks : \A j \in ks : j <= k, Len(LnMilli))

pow4(r) == RMul(RMul(r, r), RMul(r, r))

\* lines 107-113: p = exp(log_likelihood);
\* where(max(p) > 0.5, ((1 - p) / 0.5) ^ 4, ones_like(p))
_scale_loss_per_example(log_likelihood) ==
    LET p == [i \in 1..Len(log_likelihood) |-> exp(log_likelihood[i])]
    IN  [i \in 1..Len(p) |->
            IF RLess(Rat(1, 2), p[i])
            THEN pow4(RDiv(RSub(ROne, p[i]), Rat(1, 2)))
            ELSE ROne]
_scale_loss(log_likelihood) ==
    LET p == [i \in 1..Len(log_likelihood) |-> exp(log_likelihood[i])]
    IN  [i \in 1..Len(p) |->
            IF RLess(Rat(1, 2), RMaxOf(p))
            THEN pow4(RDiv(RSub(ROne, p[i]), Rat(1, 2)))
            ELSE ROne]

----------------------------------------------------------------------------
(* Specification SpecScale: line 141 applied to one batch of losses *)

\* the losses -ln(k / 10); a loss is never negative
RawLossValues == {FromMilli(-LnMilli[k]) : k \in 1..Len(LnMilli)}

InitScale ==
    /\ \E n \in 1..MaxBatch : raw_loss \in [1..n -> RawLossValues]
    /\ scale = None /\ scaled_loss = None
    /\ SimUnused /\ MarginUnused /\ ModelUnused /\ NegUnused /\ FwdUnused

\* loss *= self._scale_loss(-loss)
CallScaleLoss ==
    /\ scale = None
    /\ LET f == _scale_loss([i \in 1..Len(raw_loss) |-> RNeg(raw_loss[i])])
       IN  /\ scale' = Some(f)
           /\ scaled_loss' =
                 Some([i \in 1..Len(raw_loss) |-> RMul(raw_loss[i], f[i])])
    /\ UNCHANGED <<raw_loss, simVars, marginVars, modelVars, negVars, fwdVars>>

NextScale == CallScaleLoss
SpecScale == InitScale /\ [][NextScale]_vars

----------------------------------------------------------------------------
(* DIETClassifier: the intent embedding table and the negative sampler *)

\* Learned label embeddings, after intents_label_dense: one row per slot of
\* intents_label_embed, num_intents + 2 slots (line 81).  Two tables: one
\* with pairwise different rows, one where rows repeat.
BaseRows == <<<<1, 0>>, <<0, 1>>, <<3, 4>>, <<-1, 0>>, <<0, -1>>, <<-3, -4>>, <<2, 0>>>>
LabelTables(n) ==
    { [j \in 1..(n + 2) |-> BaseRows[j]],
      [j \in 1..(n + 2) |-> BaseRows[((j - 1) % 2) + 1]] }

\* lines 101-104: the rows of the labels 0 .. num_intents - 1
embed_all_intent(table, n) == [j \in 1..n |-> table[j]]

\* line 130: [label for label in all_label if label != sample]
neg_candidates_any(num_intent, sample) == 0..(num_intent - 1)
neg_candidates(num_intent, sample) ==
    {label \in 0..(num_intent - 1) : label # sample}

\* lines 127-132 with the outcomes of random.choice given as picks: one row of
\* embed_all per example
_neg_sample(picks, embed_all) == [i \in 1..Len(picks) |-> embed_all[picks[i] + 1]]

\* the outcomes random.choice can have for a batch of gold labels
NegPicks(num_intent, labels) ==
    {picks \in [1..Len(labels) -> 0..(num_intent - 1)] :
        \A i \in 1..Len(labels) : picks[i] \in neg_candidates(num_intent, labels[i])}

\* random.choice raises IndexError on an empty list
NegRaises(num_intent, labels) ==
    \E i \in 1..Len(labels) : neg_candidates(num_intent, labels[i]) = {}

----------------------------------------------------------------------------
(* Specification SpecNeg: _neg_sample called repeatedly on one batch *)

InitNeg ==
    /\ num_intents \in 1..MaxIntents
    /\ label_table \in LabelTables(num_intents)
    /\ \E n \in 1..MaxBatch :
          \E labels \in [1..n -> 0..(num_intents + 1)] : intent_labels = Some(labels)
    /\ neg_label = None /\ neg_status = "idle" /\ neg_calls = 0
    /\ SimUnused /\ MarginUnused /\ ScaleUnused /\ FwdUnused

CallNegSample ==
    /\ neg_calls < MaxCalls
    /\ neg_status # "IndexError"
    /\ neg_calls' = neg_calls + 1
    /\ LET labels == Val(intent_labels)
           all == embed_all_intent(label_table, num_intents)
       IN  IF NegRaises(num_intents, labels)
           THEN neg_status' = "IndexError" /\ neg_label' = None
           ELSE /\ neg_status' = "returned"
                /\ \E picks \in NegPicks(num_intents, labels) :
                      neg_label' = Some(_neg_sample(picks, all))
    /\ UNCHANGED <<intent_labels, modelVars, simVars, marginVars, scaleVars, fwdVars>>

NextNeg == CallNegSample
SpecNeg == InitNeg /\ [][NextNeg]_vars

----------------------------------------------------------------------------
(* SingleLabelDotProductLoss._loss_cross_entropy and forward *)

\* SoftplusMilli[t + 21] is 1000 * ln(1 + e^(t / 10)) rounded, t in -20..20.
\* log_softmax, nll_loss and binary_cross_entropy_with_logits of similarity
\* scores (tenths in [-1, 1]) are sums of such terms.
SoftplusMilli ==
    <<127, 139, 153, 168, 184, 201, 220, 241, 263, 287, 313, 341, 371, 403,
      437, 474, 513, 554, 598, 644, 693, 744, 798, 854, 913, 974, 1037, 1103,
      1171, 1241, 1313, 1387, 1463, 1541, 1620, 1701, 1784, 1868, 1953, 2039,
      2127>>
softplus(x) == FromMilli(SoftplusMilli[((x[1] * 10) \div x[2]) + 21])

\* lines 125-145.  nll_loss and binary_cross_entropy_with_logits reduce with
\* their default, the mean over all elements, so the loss is one number:
\* the mean over the examples of -log_softmax(logits)[0], plus the mean over
\* both columns and all examples of the binary cross entropy against [1, 0],
\* times the factor _scale_loss gives for it.
_loss_cross_entropy(sp, sn) ==
    LET soft_max_loss == RMean([i \in 1..Len(sp) |-> softplus(RSub(sn[i], sp[i]))])
        sigmoid_loss ==
            RMean([i \in 1..Len(sp) |-> softplus(RNeg(sp[i]))]
                  \o [i \in 1..Len(sn) |-> softplus(sn[i])])
        l == RAdd(soft_max_loss, sigmoid_loss)
    IN  RMul(l, _scale_loss(<<RNeg(l)>>)[1])

\* the defaults of __init__, lines 30-32
DefaultMuPos == Rat(4, 5)
DefaultMuNeg == Rat(-1, 5)
DefaultUseMaxSimNeg == TRUE

batch_sim(x, y) == [i \in 1..Len(x) |-> sim(x[i], y[i])]

\* lines 167-173, on an object built with the defaults (classifier.py line
\* 207): the margin loss of the two similarity batches (sim_pos and sim_neg
\* are computed once and bound to sp and sn)
loss_forward(inputs_embed, labels_embed_positive, labels_embed_negative) ==
    CHOOSE l \in
        { _loss_margin(DefaultMuPos, DefaultMuNeg, DefaultUseMaxSimNeg, sp, sn) :
            sp \in {batch_sim(inputs_embed, labels_embed_positive)},
            sn \in {batch_sim(inputs_embed, labels_embed_negative)} } : TRUE

----------------------------------------------------------------------------
(* DIETClassifier.forward *)

\* line 164
effective_return_dict(rd, use_rd) == IF rd # None THEN Val(rd) ELSE use_rd

\* lines 165-175: BertModel returns a plain tuple when return_dict is false
\* and a ModelOutput otherwise; outputs[2:] holds what was asked for
encoder_form(rd) == IF rd THEN "ModelOutput" ELSE "tuple"
encoder_extras(ohs, oat) ==
    (IF ohs THEN <<[kind |-> "hidden_states", value |-> None]>> ELSE <<>>)
    \o (IF oat THEN <<[kind |-> "attentions", value |-> None]>> ELSE <<>>)

\* line 195: intents_output_embed, a linear layer (here with identity weights)
intents_output_embed(pooled) == pooled
\* line 213: intents_classifier, a linear layer (here with the rows of
\* BaseRows as weights and no bias)
intents_classifier(pooled, n) ==
    [i \in 1..Len(pooled) |->
        [j \in 1..n |-> Rat(pooled[i][1] * BaseRows[j][1] + pooled[i][2] * BaseRows[j][2], 1)]]
\* lines 190-191: the best path of each example, from the sequence scorer
viterbi_tags(pooled) == [i \in 1..Len(pooled) |-> <<0, 1>>]

\* lines 105-117: one similarity per vocabulary entry, per example
logit_intent(embed_out, embed_all) ==
    [i \in 1..Len(embed_out) |->
        [j \in 1..Len(embed_all) |-> sim(embed_out[i], embed_all[j])]]

\* lines 186-188
entities_loss_when_both(e_labels, i_labels, ll) ==
    IF e_labels # None /\ i_labels # None THEN Some(RNeg(ll)) ELSE None
entities_loss_of(e_labels, i_labels, ll) ==
    IF e_labels # None THEN Some(RNeg(ll)) ELSE None

\* lines 202-203: the rows of the gold labels
intent_labels_embed(table, labels) == [i \in 1..Len(labels) |-> table[labels[i] + 1]]

\* lines 216-219: MSELoss of the single logit against the label
mse_loss(logits, labels) ==
    RMean([i \in 1..Len(labels) |->
        LET d == RSub(logits[i][1], Rat(labels[i], 1)) IN RMul(d, d)])

\* lines 225-228
joint_loss_unweighted(e_labels, i_labels, e_loss, i_loss) ==
    IF e_labels # None /\ i_labels # None
    THEN Some(RAdd(Val(e_loss), Val(i_loss)))
    ELSE None
joint_loss(e_labels, i_labels, e_loss, i_loss) ==
    IF e_labels # None /\ i_labels # None
    THEN Some(RAdd(RMul(Val(e_loss), Rat(1, 2)), RMul(Val(i_loss), Rat(1, 2))))
    ELSE None

\* lines 230-244
forward_output(is_training, rd, enc_form, extras, e_loss, i_loss, l, e_logits, i_logits) ==
    IF ~(is_training \/ rd)
    THEN LET output == <<[kind |-> "loss", value |-> l]>> \o extras
         IN  [form |-> "tuple",
              items |-> IF e_loss # None /\ i_loss # None
                        THEN <<[kind |-> "loss", value |-> l]>> \o output
                        ELSE output]
    ELSE IF enc_form = "tuple"
    THEN [form |-> "AttributeError"]
    ELSE [form |-> "dict",
          entities_loss |-> e_loss,
          intent_loss |-> i_loss,
          loss |-> l,
          logits |-> <<e_logits, i_logits>>,
          hidden_states |-> extras # <<>> /\ extras[1].kind = "hidden_states",
          attentions |-> extras # <<>> /\ extras[Len(extras)].kind = "attentions"]

----------------------------------------------------------------------------
(* Specification Spec: one call of DIETClassifier.forward *)

\* the first token's hidden vector of an example
PooledValues == {<<3, 4>>, <<0, -2>>}
\* log-likelihoods the sequence scorer returns for the gold tags
CrfValues == {Rat(-1, 2), Rat(-3, 1)}
\* values CrossEntropyLoss returns for the classifier's logits
CrossEntropyValues == {Rat(1, 4), Rat(3, 2)}
GoldTags == <<"tags">>

\* loss_type is the strategy the configuration asks for; no line of the
\* code reads it
Init ==
    /\ use_dot_product \in BOOLEAN
    /\ training \in BOOLEAN
    /\ use_return_dict \in BOOLEAN
    /\ loss_type \in {"margin", "cross_entropy"}
    /\ num_intents \in 1..MaxIntents
    /\ label_table = [j \in 1..(num_intents + 2) |-> BaseRows[j]]
    /\ entities_labels = None /\ return_dict = None
    /\ output_hidden_states = FALSE /\ output_attentions = FALSE
    /\ pooled_output = <<>> /\ crf_ll = RZero
    /\ entities_loss = None /\ intent_loss = None /\ loss = None
    /\ out = [form |-> "idle"]
    /\ NegUnused
    /\ SimUnused /\ MarginUnused /\ ScaleUnused

Forward ==
    /\ out.form = "idle"
    /\ \E n \in 1..MaxForwardBatch :
       \E pooled \in [1..n -> PooledValues],
          i_labels \in {None} \cup {Some(l) : l \in [1..n -> 0..(num_intents - 1)]},
          e_labels \in {None, Some(GoldTags)},
          rd_arg \in {None, Some(TRUE), Some(FALSE)},
          ohs \in BOOLEAN, oat \in BOOLEAN :
       \E ll \in (IF e_labels = None THEN {RZero} ELSE CrfValues) :
          /\ pooled_output' = pooled
          /\ intent_labels' = i_labels
          /\ entities_labels' = e_labels
          /\ crf_ll' = ll
          /\ return_dict' = rd_arg
          /\ output_hidden_states' = ohs
          /\ output_attentions' = oat
          /\ LET rd == effective_return_dict(rd_arg, use_return_dict)
                 extras == encoder_extras(ohs, oat)
                 e_loss == entities_loss_of(e_labels, i_labels, ll)
                 e_logits == viterbi_tags(pooled)
                 embed_out == intents_output_embed(pooled)
                 all_intent == embed_all_intent(label_table, num_intents)
                 Finish(i_loss, i_logits) ==
                     /\ intent_loss' = i_loss
                     /\ \E l \in {joint_loss(e_labels, i_labels, e_loss, i_loss)} :
                           /\ loss' = l
                           /\ out' = forward_output(training, rd, encoder_form(rd), extras,
                                                    e_loss, i_loss, l, e_logits, i_logits)
             IN  /\ entities_loss' = e_loss
                 /\ IF use_dot_product
                    THEN \E sims \in {logit_intent(embed_out, all_intent)} :
                         IF i_labels = None
                         THEN /\ neg_label' = None
                              /\ Finish(None, sims)
                         ELSE IF NegRaises(num_intents, Val(i_labels))
                         THEN /\ neg_label' = None
                              /\ intent_loss' = None /\ loss' = None
                              /\ out' = [form |-> "IndexError"]
                         ELSE \E picks \in NegPicks(num_intents, Val(i_labels)) :
                              \E neg \in {_neg_sample(picks, all_intent)} :
                              \E i_loss \in {loss_forward(
                                                embed_out,
                                                intent_labels_embed(label_table, Val(i_labels)),
                                                neg)} :
                                 /\ neg_label' = Some(neg)
                                 /\ Finish(Some(i_loss), sims)
                    ELSE /\ neg_label' = None
                         /\ \E i_logits \in {intents_classifier(pooled, num_intents)} :
                            IF i_labels = None
                            THEN Finish(None, i_logits)
                            ELSE IF num_intents = 1
                            THEN Finish(Some(mse_loss(i_logits, Val(i_labels))), i_logits)
                            ELSE \E ce \in CrossEntropyValues : Finish(Some(ce), i_logits)
    /\ UNCHANGED <<configVars, modelVars, neg_status, neg_calls,
                   simVars, marginVars, scaleVars>>

Next == Forward
Spec == Init /\ [][Next]_vars

----------------------------------------------------------------------------
(* Claims about sim, under SpecSim *)

Dot(x, y) == x[1] * y[1] + x[2] * y[2]
Neg(x) == <<-x[1], -x[2]>>
ZeroVec == <<0, 0>>
SimDone == sim_result # None

\* C6 (as stated): sim returns 1 when a = b, 0 when a and b are orthogonal and
\* -1 when b = -a, for every input, vectors of zero norm included.
C6_AsStated ==
    SimDone =>
        /\ (a = b => Val(sim_result) = ROne)
        /\ (Dot(a, b) = 0 => Val(sim_result) = RZero)
        /\ (b = Neg(a) => Val(sim_result) = Rat(-1, 1))

\* C6 (amended): sim returns 1 when a = b and -1 when b = -a provided the
\* vector has a non-zero norm, and 0 when a and b are orthogonal; when a or b
\* has zero norm the result is 0 (so sim(0, 0) = 0, not 1 or -1).
C6_SimCardinalValues ==
    SimDone =>
        /\ (a = b /\ a # ZeroVec => Val(sim_result) = ROne)
        /\ (Dot(a, b) = 0 => Val(sim_result) = RZero)
        /\ (b = Neg(a) /\ a # ZeroVec => Val(sim_result) = Rat(-1, 1))
        /\ (a = ZeroVec \/ b = ZeroVec => Val(sim_result) = RZero)

\* a state where sim has been applied to two equal vectors of norm 10
C6_Witness == SimDone /\ a = b /\ a = <<6, 8>>

----------------------------------------------------------------------------
(* Claims about _loss_margin, under SpecMargin *)

MarginDone == margin_loss # None
BatchIdx == 1..Len(sim_pos)

\* the largest score of the whole sim_neg batch
GlobalMaxNeg ==
    CHOOSE m \in {sim_neg[j] : j \in 1..Len(sim_neg)} :
        \A j \in 1..Len(sim_neg) : RLeq(sim_neg[j], m)

\* C3: in max-sim-neg mode the loss is the mean over the examples i of
\* max(0, mu_pos - sim_pos[i]) + max(0, mu_neg + M), M the single maximum of
\* the whole sim_neg batch; with mu_pos = 0.8, mu_neg = -0.2,
\* sim_pos = [0.9, 0.3], sim_neg = [-0.5, 0.1] it is 0.25.
C3_MaxSimNegLoss ==
    (MarginDone /\ use_max_sim_neg) =>
        /\ RMul(Rat(Len(sim_pos), 1), Val(margin_loss)) =
              RAdd(RSum([i \in BatchIdx |-> RMaximum(RZero, RSub(mu_pos, sim_pos[i]))]),
                   RMul(Rat(Len(sim_pos), 1),
                        RMaximum(RZero, RAdd(mu_neg, GlobalMaxNeg))))
        /\ (/\ mu_pos = Rat(4, 5) /\ mu_neg = Rat(-1, 5)
            /\ sim_pos = <<Rat(9, 10), Rat(3, 10)>>
            /\ sim_neg = <<Rat(-1, 2), Rat(1, 10)>>) => Val(margin_loss) = Rat(1, 4)

\* a max-sim-neg call where the global maximum differs from one example's own
\* negative score and the negative hinge is active
C3_Witness ==
    /\ MarginDone /\ use_max_sim_neg
    /\ Len(sim_neg) = 2
    /\ sim_neg[1] # sim_neg[2]
    /\ RLess(RZero, RAdd(mu_neg, GlobalMaxNeg))

\* C9: the value returned by _loss_margin is greater than or equal to 0.
C9_MarginNonNegative == MarginDone => RLeq(RZero, Val(margin_loss))

\* a call where the positive score exceeds mu_pos, so only the hinge keeps the
\* positive term from being negative
C9_Witness ==
    /\ MarginDone
    /\ \E i \in BatchIdx : RLess(mu_pos, sim_pos[i])
    /\ \A j \in 1..Len(sim_neg) : RLess(RAdd(mu_neg, sim_neg[j]), RZero)

----------------------------------------------------------------------------
(* Claims about _scale_loss, under SpecScale *)

ScaleDone == scale # None
ScaleIdx == 1..Len(raw_loss)
\* the implied confidence of example i: k / 10 for the loss -ln(k / 10)
Confidence(i) ==
    Rat(CHOOSE k \in 1..Len(LnMilli) : FromMilli(-LnMilli[k]) = raw_loss[i],
        Len(LnMilli))
Triggered == \E j \in ScaleIdx : RLess(Rat(1, 2), Confidence(j))
Factor(i) ==
    LET r == RMul(Rat(2, 1), RSub(ROne, Confidence(i)))
    IN  RMul(r, RMul(r, RMul(r, r)))

\* the factor is 1 for every example when no example has p > 0.5, and
\* ((1 - p) / 0.5)^4 per example when some example has
C8_FactorValue ==
    \A i \in ScaleIdx :
        /\ (~Triggered => Val(scale)[i] = ROne)
        /\ (Triggered => Val(scale)[i] = Factor(i))

\* the scaled loss strictly decreases as the example's p grows, once triggered
C8_StrictlyDecreasing ==
    Triggered =>
        \A i, j \in ScaleIdx :
            RLess(Confidence(i), Confidence(j)) =>
                RLess(Val(scaled_loss)[j], Val(scaled_loss)[i])

\* C8 (as stated): the factor is 1 for every example when no example has
\* p > 0.5 and ((1 - p) / 0.5)^4 per example otherwise; the scaled loss of an
\* example is never larger than its raw loss and strictly decreases as that
\* example's p grows towards 1.
C8_AsStated ==
    ScaleDone =>
        /\ C8_FactorValue
        /\ \A i \in ScaleIdx : RLeq(Val(scaled_loss)[i], raw_loss[i])
        /\ C8_StrictlyDecreasing

\* C8 (amended): the factor is 1 for every example when no example has
\* p > 0.5 and ((1 - p) / 0.5)^4 per example otherwise; once triggered, the
\* scaled loss of an example with p >= 0.5 is never larger than its raw loss,
\* the scaled loss of an example with p < 0.5 is larger than its raw loss, and
\* the scaled loss strictly decreases as the example's p grows towards 1.
C8_ScaleLoss ==
    ScaleDone =>
        /\ C8_FactorValue
        /\ \A i \in ScaleIdx :
              /\ (~Triggered => Val(scaled_loss)[i] = raw_loss[i])
              /\ (Triggered /\ RLeq(Rat(1, 2), Confidence(i)) =>
                    RLeq(Val(scaled_loss)[i], raw_loss[i]))
              /\ (Triggered /\ RLess(Confidence(i), Rat(1, 2)) =>
                    RLess(raw_loss[i], Val(scaled_loss)[i]))
        /\ C8_StrictlyDecreasing

\* a scaled batch holding an example with p > 0.5 and one with p < 0.5
C8_Witness ==
    /\ ScaleDone
    /\ \E i, j \in ScaleIdx :
          /\ RLess(Rat(1, 2), Confidence(i))
          /\ RLess(Confidence(j), Rat(1, 2))

----------------------------------------------------------------------------
(* Claims about _neg_sample, under SpecNeg *)

\* C2: each row returned by _neg_sample is the row embed_all_intent[j] for an
\* index j in 0..n-1 different from that example's own gold label, for every
\* example of the batch and on every repeated call.
C2_NegativeIsNotGold ==
    neg_status = "returned" =>
        \A i \in 1..Len(Val(intent_labels)) :
            \E j \in 0..(num_intents - 1) :
                /\ j # Val(intent_labels)[i]
                /\ Val(neg_label)[i] = label_table[j + 1]

\* the second of two calls returned, on a batch of two in-vocabulary labels and
\* a table of pairwise different rows
C2_Witness ==
    /\ neg_status = "returned" /\ neg_calls = 2
    /\ num_intents = 3
    /\ label_table[1] # label_table[3]
    /\ Len(Val(intent_labels)) = 2
    /\ \A i \in 1..2 : Val(intent_labels)[i] < num_intents

----------------------------------------------------------------------------
(* Claims about DIETClassifier.forward, under Spec *)

Returned == out.form \in {"dict", "tuple"}
BothLabels == entities_labels # None /\ intent_labels # None

\* the joint loss as the caller receives it
OutJointLoss == IF out.form = "dict" THEN out.loss ELSE out.items[1].value

\* the values the loss fields of the output carry (None where a field is empty)
OutLossFields ==
    IF out.form = "dict"
    THEN {out.entities_loss, out.intent_loss, out.loss}
    ELSE {out.items[k].value : k \in {j \in 1..Len(out.items) : out.items[j].kind = "loss"}}

\* the output holds the decoded tag paths and the intent decision surface
OutHasDecisions ==
    \/ /\ out.form = "dict"
       /\ out.logits[1] = viterbi_tags(pooled_output)
       /\ Len(out.logits[2]) = Len(pooled_output)
    \/ /\ out.form = "tuple"
       /\ \E k \in 1..Len(out.items) : out.items[k].kind = "logits"

\* C1: in both intent strategies, if both entities_labels and intent_labels are
\* supplied the joint loss equals exactly 0.5 * entities_loss + 0.5 *
\* intent_loss; if either label set is omitted the joint loss is None.
C1_JointLoss ==
    Returned =>
        /\ OutJointLoss = loss
        /\ BothLabels =>
              /\ loss # None
              /\ RAdd(Val(loss), Val(loss)) = RAdd(Val(entities_loss), Val(intent_loss))
        /\ ~BothLabels => loss = None

\* a call in the embedding-similarity strategy that got both label sets and
\* returned a positive intent loss
C1_Witness ==
    /\ Returned /\ BothLabels /\ use_dot_product
    /\ RLess(RZero, Val(intent_loss))

\* C4: every call of forward that returns, whichever labels are supplied and
\* whichever output form is selected, returns the decoded entity tag path and
\* the intent decision surface in its output.
C4_AsStated == Returned => OutHasDecisions

\* C5 (as stated): the loss fields carry a value only when both gold entity
\* tags and gold intent labels are supplied; when exactly one label set is
\* supplied, no loss field carries a value.
C5_AsStated ==
    Returned => (BothLabels \/ \A f \in OutLossFields : f = None)

\* C5 (amended): the joint loss carries a value exactly when both label sets
\* are supplied; in the dictionary output entities_loss carries a value exactly
\* when gold entity tags are supplied and intent_loss exactly when gold intent
\* labels are supplied, whether or not the other label set is; the tuple
\* output holds only the joint loss.
C5_LossFields ==
    /\ out.form = "dict" =>
          /\ (out.entities_loss # None) <=> (entities_labels # None)
          /\ (out.intent_loss # None) <=> (intent_labels # None)
          /\ (out.loss # None) <=> BothLabels
    /\ out.form = "tuple" =>
          \A f \in OutLossFields : (f # None) <=> BothLabels

\* a dictionary output of a call that got gold entity tags and no intent labels
C5_Witness ==
    /\ out.form = "dict"
    /\ entities_labels # None /\ intent_labels = None

\* C7: the intent loss strategy is selectable by configuration: with the hybrid
\* cross-entropy strategy selected the intent loss of the
\* embedding-similarity path is the value of _loss_cross_entropy on
\* (sim_pos, sim_neg), with the margin strategy selected it is the value of
\* _loss_margin.
C7_AsStated ==
    (Returned /\ use_dot_product /\ intent_labels # None) =>
        LET embed_out == intents_output_embed(pooled_output)
            sp == batch_sim(embed_out, intent_labels_embed(label_table, Val(intent_labels)))
            sn == batch_sim(embed_out, Val(neg_label))
        IN  intent_loss =
                Some(IF loss_type = "cross_entropy"
                     THEN _loss_cross_entropy(sp, sn)
                     ELSE _loss_margin(DefaultMuPos, DefaultMuNeg, DefaultUseMaxSimNeg, sp, sn))

====
